---- MODULE Spec2Model ----
(***************************************************************************)
(* Model of newgithub.py: a linear orchestration of git commands that      *)
(* turns a directory into a repository and pushes it to a remote.          *)
(* Strings are sequences of one-character strings, so that strip,          *)
(* startswith, rstrip, replace and basename are computed as Python does.   *)
(***************************************************************************)
EXTENDS Integers, Sequences, FiniteSets, TLC

(* ---------------- bounds ---------------- *)
MaxPathLen == 2
MaxUrlTail == 1
MaxNameTail == 5
MaxFileLen == 1
MaxPreCommits == 1
MaxRemoteAhead == 1

(* ---------------- strings ---------------- *)
SeqsUpTo(S, n) == UNION {[1..k -> S] : k \in 0..n}

Https == <<"h", "t", "t", "p", "s", ":", "/", "/">>
GitAt == <<"g", "i", "t", "@">>
DotGit == <<".", "g", "i", "t">>

DropFirst(s, k) == SubSeq(s, k + 1, Len(s))

StartsWith(s, p) == Len(s) >= Len(p) /\ SubSeq(s, 1, Len(p)) = p

\* the characters str.isspace() accepts; those TLA+ cannot write are named by
\* their code point
Whitespace ==
    {" ", "\t", "\n", "\f", "\r", "U+000B", "U+001C", "U+001D", "U+001E", "U+001F",
     "U+0085", "U+00A0", "U+1680", "U+2000", "U+2001", "U+2002", "U+2003", "U+2004",
     "U+2005", "U+2006", "U+2007", "U+2008", "U+2009", "U+200A", "U+2028", "U+2029",
     "U+202F", "U+205F", "U+3000"}

\* str.lstrip(chars)
RECURSIVE LStrip(_, _)
LStrip(s, chars) ==
    IF s # <<>> /\ Head(s) \in chars THEN LStrip(Tail(s), chars) ELSE s

\* str.rstrip(chars)
RECURSIVE RStrip(_, _)
RStrip(s, chars) ==
    IF s # <<>> /\ s[Len(s)] \in chars
    THEN RStrip(SubSeq(s, 1, Len(s) - 1), chars)
    ELSE s

\* str.strip(): whitespace removed at both ends
Strip(s) == RStrip(LStrip(s, Whitespace), Whitespace)

\* str.replace(".git", ""): every non-overlapping occurrence, left to right
RECURSIVE ReplaceDotGit(_)
ReplaceDotGit(s) ==
    IF s = <<>> THEN <<>>
    ELSE IF StartsWith(s, DotGit) THEN ReplaceDotGit(DropFirst(s, Len(DotGit)))
    ELSE <<Head(s)>> \o ReplaceDotGit(Tail(s))

\* os.path.basename: what follows the last "/"
RECURSIVE Basename(_)
Basename(s) ==
    IF s = <<>> \/ s[Len(s)] = "/" THEN <<>>
    ELSE Basename(SubSeq(s, 1, Len(s) - 1)) \o <<s[Len(s)]>>

RepoName(url) == Basename(ReplaceDotGit(RStrip(url, {"/"})))

ValidUrlMut(url) == TRUE
ValidUrl(url) == StartsWith(url, Https) \/ StartsWith(url, GitAt)

(* ---------------- the environment ---------------- *)
StartCwd == <<"/", "w">>

IsEmptyPath(s) == s = <<>>

IsAbs(path) == path # <<>> /\ Head(path) = "/"

\* posixpath.join of two parts
Join(a, b) ==
    IF IsAbs(b) THEN b
    ELSE IF a = <<>> \/ a[Len(a)] = "/" THEN a \o b
    ELSE a \o <<"/">> \o b

\* str.split("/")
RECURSIVE SplitSlash(_)
SplitSlash(s) ==
    IF \A i \in 1..Len(s) : s[i] # "/" THEN <<s>>
    ELSE LET i == CHOOSE j \in 1..Len(s) :
                      s[j] = "/" /\ \A k \in 1..(j - 1) : s[k] # "/"
         IN <<SubSeq(s, 1, i - 1)>> \o SplitSlash(SubSeq(s, i + 1, Len(s)))

\* "/".join(comps)
RECURSIVE JoinSlash(_)
JoinSlash(comps) ==
    IF comps = <<>> THEN <<>>
    ELSE IF Len(comps) = 1 THEN comps[1]
    ELSE comps[1] \o <<"/">> \o JoinSlash(Tail(comps))

DotDot == <<".", ".">>

\* the loop of posixpath.normpath over the components
RECURSIVE NormComps(_, _, _)
NormComps(comps, new, initial) ==
    IF comps = <<>> THEN new
    ELSE LET c == Head(comps) IN
         IF c = <<>> \/ c = <<".">> THEN NormComps(Tail(comps), new, initial)
         ELSE IF \/ c # DotDot
                 \/ (initial = 0 /\ new = <<>>)
                 \/ (new # <<>> /\ new[Len(new)] = DotDot)
              THEN NormComps(Tail(comps), Append(new, c), initial)
         ELSE IF new # <<>>
              THEN NormComps(Tail(comps), SubSeq(new, 1, Len(new) - 1), initial)
         ELSE NormComps(Tail(comps), new, initial)

\* posixpath.normpath: two leading slashes are kept, three or more are one
NormPath(path) ==
    IF path = <<>> THEN <<".">>
    ELSE LET initial ==
                 IF ~IsAbs(path) THEN 0
                 ELSE IF StartsWith(path, <<"/", "/">>)
                         /\ ~StartsWith(path, <<"/", "/", "/">>) THEN 2
                 ELSE 1
             body == JoinSlash(NormComps(SplitSlash(path), <<>>, initial))
             out == [i \in 1..initial |-> "/"] \o body
         IN IF out = <<>> THEN <<".">> ELSE out

\* os.path.abspath, called before the working directory changes
Abspath(s) == NormPath(IF IsAbs(s) THEN s ELSE Join(StartCwd, s))

PathChars == {" ", "\t", "d"}
SpecialPaths == {<<".">>, <<"d", "/">>, <<"/", "x">>}
DirInputs == SeqsUpTo(PathChars, MaxPathLen) \cup SpecialPaths
DirNames == {<<"d">>}

UrlTailChars == {"r"}
UrlHeads == {Https, GitAt, <<"h", "t", "t", "p", ":", "/", "/">>, <<>>}
UrlInputs ==
    {pad \o h \o t : pad \in {<<>>, <<" ">>, <<"\t">>}, h \in UrlHeads,
                     t \in SeqsUpTo(UrlTailChars, MaxUrlTail)}

NameChars == {"/", ".", "g", "i", "t", "r"}
NameUrls == {h \o t : h \in {Https, GitAt}, t \in SeqsUpTo(NameChars, MaxNameTail)}

Absent == [kind |-> "absent", data |-> <<>>]
Directory == [kind |-> "dir", data |-> <<>>]
File(c) == [kind |-> "file", data |-> c]
TemplateStates == {Absent, Directory} \cup {File(c) : c \in SeqsUpTo({"a"}, MaxFileLen)}
\* what the target directory holds under the name .gitignore before the run
GitignoreStates == {Absent, Directory, File(<<>>), File(<<"x">>)}

OldUrl == Https \o <<"o">>
\* git status is not empty: other files are untracked or modified, or the
\* ignore file is a file that differs from the one in the last commit
StatusDirty(gi, other, head) == other \/ (gi.kind = "file" /\ gi # head)

\* the directory before the run: not a repository (other: it holds files), or
\* a repository with c commits whose last commit holds the ignore file or not
\* (head) and whose working tree has other changes or not
NoRepo(other) ==
    [repo |-> FALSE, commits |-> 0, branch |-> "none", remotes |-> {},
     dirty |-> FALSE, other |-> other, head |-> Absent, held |-> FALSE]
GitStates(gi) ==
    {NoRepo(o) : o \in BOOLEAN} \cup
    {[repo |-> TRUE, commits |-> c, branch |-> "master", remotes |-> r,
      dirty |-> StatusDirty(gi, o, h), other |-> o, head |-> h,
      held |-> FALSE] :
        c \in 0..MaxPreCommits,
        r \in {{}, {<<"origin", OldUrl>>}, {<<"upstream", OldUrl>>}},
        o \in BOOLEAN,
        h \in {Absent} \cup (IF gi.kind = "file" THEN {gi} ELSE {})}

Modes == {"prompt", "current", "help", "badarg"}
\* subprocess.run: exit 0, CalledProcessError, FileNotFoundError, another
\* OSError (e.g. PermissionError for a git that is not executable)
Outcomes == {"ok", "nonzero", "notfound", "oserror"}

VARIABLES mode, pc, exit, uncaught, error, warnings, dirs, dir_input, repo_dir,
          cwd, template, gitignore, git, remote_commits, pulled, pushed,
          repo_url, repo_name, cmds, pre, asked, remote_ignore, base,
          base_ignore

vars == <<mode, pc, exit, uncaught, error, warnings, dirs, dir_input, repo_dir,
          cwd, template, gitignore, git, remote_commits, pulled, pushed,
          repo_url, repo_name, cmds, pre, asked, remote_ignore, base,
          base_ignore>>

env == <<mode, dirs, template, pre, remote_ignore, base, base_ignore>>
gitv == <<git, remote_commits, pulled, pushed>>

Init ==
    /\ mode \in Modes
    /\ pc = "parse"
    /\ exit = -1
    /\ uncaught = "none"
    /\ error = "none"
    /\ warnings = {}
    \* the directories that exist; only the directory prompt looks at them
    /\ \E S \in (IF mode = "prompt" THEN SUBSET DirNames ELSE {{}}) :
          dirs = {<<"/">>, StartCwd} \cup {Abspath(n) : n \in S}
    /\ dir_input = <<>>
    /\ repo_dir = <<>>
    /\ cwd = StartCwd
    /\ template \in TemplateStates
    /\ gitignore \in GitignoreStates
    /\ git \in GitStates(gitignore)
    \* repositories with remotes registered beforehand are run with --current;
    \* the steps after the directory prompt do not depend on the mode
    /\ mode = "prompt" => git.remotes = {}
    /\ git.commits = 0 => git.head = Absent
    \* base: the first commits of the local history that are the remote's too
    \* (0: unrelated histories), base_ignore: the ignore file in the last of
    \* them. The remote holds up to MaxRemoteAhead commits more; they leave
    \* that file, delete it or write their own. The local later commits leave
    \* it or add it.
    /\ base \in 0..git.commits
    /\ remote_commits \in base..(base + MaxRemoteAhead)
    /\ base_ignore \in {Absent, git.head}
    /\ base = 0 => base_ignore = Absent
    /\ (base > 0 /\ base = git.commits) => base_ignore = git.head
    /\ remote_ignore \in {Absent, base_ignore, File(<<"m">>)}
    /\ remote_commits = 0 => remote_ignore = Absent
    /\ (base > 0 /\ base = remote_commits) => remote_ignore = base_ignore
    /\ pulled = FALSE
    /\ pushed = FALSE
    /\ repo_url = <<>>
    /\ repo_name = <<>>
    /\ cmds = <<>>
    /\ pre = [gitignore |-> gitignore, git |-> git]
    /\ asked = {}

(* ---------------- termination ---------------- *)
PrintErrorMut(tag) ==
    /\ pc' = "done"
    /\ exit' = 0
    /\ error' = tag
    /\ UNCHANGED uncaught

\* print_error: message on stderr, then sys.exit(1)
PrintError(tag) ==
    /\ pc' = "done"
    /\ exit' = 1
    /\ error' = tag
    /\ UNCHANGED uncaught

\* an exception nobody catches: traceback, interpreter exit status 1
Crash(where) ==
    /\ pc' = "done"
    /\ exit' = 1
    /\ uncaught' = where
    /\ UNCHANGED error

Goto(next) ==
    /\ pc' = next
    /\ UNCHANGED <<exit, uncaught, error>>

AbortsMut(outcome) == FALSE
\* the two except clauses of run_command
Aborts(outcome) == outcome \in {"nonzero", "notfound"}

\* run_command: CalledProcessError and FileNotFoundError both end in
\* print_error; any other exception of subprocess.run is not caught
RunCommand(name, outcome, next) ==
    /\ cmds' = Append(cmds, <<name, outcome>>)
    /\ IF outcome = "oserror" THEN Crash(name)
       ELSE IF Aborts(outcome) THEN PrintError(name)
       ELSE Goto(next)

Warn(tag) == warnings' = warnings \cup {tag}

(* ---------------- main(), step by step ---------------- *)

\* parser.parse_args(): -h prints the help and exits 0, an unknown argument
\* is a usage error with exit status 2
ParseArgs ==
    /\ pc = "parse"
    /\ CASE mode = "help" -> pc' = "done" /\ exit' = 0
         [] mode = "badarg" -> pc' = "done" /\ exit' = 2
         [] mode = "current" -> pc' = "chdir" /\ exit' = exit
         [] mode = "prompt" -> pc' = "ask_dir" /\ exit' = exit
    /\ repo_dir' = IF mode = "current" THEN cwd ELSE repo_dir
    /\ UNCHANGED <<uncaught, error, warnings, env, dir_input, cwd, gitignore, gitv,
                   repo_url, repo_name, cmds, asked>>

IsDirMut(path) == TRUE
\* os.path.isdir; a path with two leading slashes names what one slash names
IsDir(path) ==
    (IF StartsWith(path, <<"/", "/">>) THEN Tail(path) ELSE path) \in dirs

\* the directory prompt (the answer is kept stripped) and its two checks
AskDir ==
    /\ pc = "ask_dir"
    /\ \/ \E raw \in DirInputs :
            LET s == Strip(raw) IN
            /\ dir_input' = s
            /\ IF IsEmptyPath(s)
               THEN PrintError("empty_path") /\ UNCHANGED repo_dir
               ELSE /\ repo_dir' = Abspath(s)
                    /\ IF IsDir(Abspath(s)) THEN Goto("chdir")
                       ELSE PrintError("no_dir")
       \* input() on a standard input at end of file raises EOFError, which
       \* nothing catches
       \/ Crash("ask_dir") /\ UNCHANGED <<dir_input, repo_dir>>
    /\ asked' = asked \cup {"dir"}
    /\ UNCHANGED <<warnings, env, cwd, gitignore, gitv, repo_url, repo_name, cmds>>

\* os.chdir(repo_dir); an inaccessible directory raises, nothing catches it
Chdir ==
    /\ pc = "chdir"
    /\ \E ok \in BOOLEAN :
        IF ok /\ IsDir(repo_dir)
        THEN cwd' = repo_dir /\ Goto("init")
        ELSE Crash("chdir") /\ UNCHANGED cwd
    /\ UNCHANGED <<warnings, env, dir_input, repo_dir, gitignore, gitv, repo_url,
                   repo_name, cmds, asked>>

GitInit ==
    /\ pc = "init"
    /\ \E o \in Outcomes :
        /\ RunCommand("init", o, "create")
        /\ git' = IF o = "ok" /\ ~git.repo
                  THEN [repo |-> TRUE, commits |-> 0, branch |-> "master",
                        remotes |-> {},
                        dirty |-> StatusDirty(gitignore, git.other, Absent),
                        other |-> git.other, head |-> Absent, held |-> FALSE]
                  ELSE git
    /\ UNCHANGED <<warnings, env, dir_input, repo_dir, cwd, gitignore, remote_commits,
                   pulled, pushed, repo_url, repo_name, asked>>

\* open(gitignore_path, "a"): creates the file when missing, keeps its content
\* when present, raises (uncaught) when the name is a directory or when the
\* file or the directory is not writable. A new file is untracked, so the
\* working tree is dirty from here on.
CreateGitignore ==
    /\ pc = "create"
    /\ \E writable \in BOOLEAN :
        CASE gitignore.kind = "dir" \/ ~writable ->
                 Crash("create") /\ UNCHANGED gitignore
          [] gitignore.kind = "absent" /\ writable ->
                 Goto("populate") /\ gitignore' = File(<<>>)
          [] gitignore.kind = "file" /\ writable ->
                 Goto("populate") /\ UNCHANGED gitignore
    /\ git' = [git EXCEPT !.dirty = StatusDirty(gitignore', git.other, git.head)]
    /\ UNCHANGED <<warnings, env, dir_input, repo_dir, cwd, remote_commits, pulled,
                   pushed, repo_url, repo_name, cmds, asked>>

CaughtCopyErrorMut == Crash("populate") /\ UNCHANGED warnings
CaughtCopyError == Warn("copy_failed") /\ Goto("add")

CopyFileMut(content) == File(<<>>)
CopyFile(content) == File(content)

\* Whether git status lists other files once the ignore file went from old to
\* new: the names of the other files are not part of the state, so a changed
\* ignore file may hide files that were listed or show files that were hidden.
Listed(old, new, other) == IF new = old THEN {other} ELSE BOOLEAN

\* try: exists -> copyfile, else warning; except Exception: warning. The
\* working tree is dirty afterwards when the file differs from the committed
\* one or other files are listed.
PopulateGitignore ==
    /\ pc = "populate"
    /\ CASE template.kind = "absent" ->
              Warn("no_template") /\ Goto("add") /\ UNCHANGED gitignore
         [] template.kind = "dir" ->
              CaughtCopyError /\ UNCHANGED gitignore
         [] template.kind = "file" ->
              \/ gitignore' = CopyFile(template.data) /\ Goto("add") /\ UNCHANGED warnings
              \/ /\ CaughtCopyError
                 /\ \E k \in 0..Len(template.data) :
                        gitignore' \in {gitignore, File(SubSeq(template.data, 1, k))}
    /\ \E o \in Listed(gitignore, gitignore', git.other) :
          git' = [git EXCEPT !.other = o,
                             !.dirty = StatusDirty(gitignore', o, git.head)]
    /\ UNCHANGED <<env, dir_input, repo_dir, cwd, remote_commits, pulled, pushed,
                   repo_url, repo_name, cmds, asked>>

GitAdd ==
    /\ pc = "add"
    /\ \E o \in Outcomes : RunCommand("add", o, "commit")
    /\ UNCHANGED <<warnings, env, dir_input, repo_dir, cwd, gitignore, gitv, repo_url,
                   repo_name, asked>>

\* git commit fails when there is nothing to commit; it records everything
\* git add . staged, the ignore file included
GitCommit ==
    /\ pc = "commit"
    /\ \E o \in Outcomes :
        /\ o = "ok" => git.dirty
        /\ RunCommand("commit", o, "branch")
        /\ git' = IF o = "ok"
                  THEN [git EXCEPT !.commits = @ + 1, !.dirty = FALSE,
                                   !.other = FALSE, !.head = gitignore,
                                   !.held = git.other]
                  ELSE git
    /\ UNCHANGED <<warnings, env, dir_input, repo_dir, cwd, gitignore, remote_commits,
                   pulled, pushed, repo_url, repo_name, asked>>

BranchNameMut == "master"
BranchName == "main"

GitBranch ==
    /\ pc = "branch"
    /\ \E o \in Outcomes :
        /\ RunCommand("branch", o, "ask_url")
        /\ git' = IF o = "ok" THEN [git EXCEPT !.branch = BranchName] ELSE git
    /\ UNCHANGED <<warnings, env, dir_input, repo_dir, cwd, gitignore, remote_commits,
                   pulled, pushed, repo_url, repo_name, asked>>

\* the URL prompt and the prefix check
AskUrl ==
    /\ pc = "ask_url"
    /\ \/ \E raw \in UrlInputs :
            /\ repo_url' = Strip(raw)
            /\ IF ValidUrl(Strip(raw)) THEN Goto("remote")
               ELSE PrintError("bad_url")
       \* input() on a standard input at end of file raises EOFError, which
       \* nothing catches
       \/ Crash("ask_url") /\ UNCHANGED repo_url
    /\ asked' = asked \cup {"url"}
    /\ UNCHANGED <<warnings, env, dir_input, repo_dir, cwd, gitignore, gitv, repo_name,
                   cmds>>

\* git remote add origin <url> fails when origin is already registered
GitRemoteAdd ==
    /\ pc = "remote"
    /\ \E o \in Outcomes :
        /\ o = "ok" => ~\E r \in git.remotes : r[1] = "origin"
        /\ RunCommand("remote", o, "pull")
        /\ git' = IF o = "ok"
                  THEN [git EXCEPT !.remotes = @ \cup {<<"origin", repo_url>>}]
                  ELSE git
    /\ UNCHANGED <<warnings, env, dir_input, repo_dir, cwd, gitignore, remote_commits,
                   pulled, pushed, repo_url, repo_name, asked>>

\* the remote branch exists and the local history holds all its commits:
\* the pull has nothing to do
UpToDate == remote_commits > 0 /\ base = remote_commits

\* the local branch already holds everything the remote branch holds
ContainsRemote == remote_commits = 0 \/ UpToDate \/ pulled

ConflictMarkers(ours, theirs) == <<"<">> \o ours \o <<"=">> \o theirs \o <<">">>

\* The rebase replays a commit that changes the ignore file from parent to
\* theirs where the rebased history has ours. A side that did not change the
\* file takes the other side's (a deletion included); two files are merged
\* by content, an empty parent standing for no file; anything else stops the
\* rebase, with conflict markers in the file when both sides have one.
Merge3(parent, ours, theirs) ==
    LET p == IF parent.kind = "file" THEN parent.data ELSE <<>> IN
    IF theirs = parent \/ ours = theirs THEN [ok |-> TRUE, res |-> ours]
    ELSE IF ours = parent THEN [ok |-> TRUE, res |-> theirs]
    ELSE IF ours.kind = "file" /\ theirs.kind = "file"
         THEN IF theirs.data = p THEN [ok |-> TRUE, res |-> ours]
              ELSE IF ours.data = p THEN [ok |-> TRUE, res |-> theirs]
              ELSE [ok |-> FALSE,
                    res |-> File(ConflictMarkers(ours.data, theirs.data))]
         ELSE [ok |-> FALSE, res |-> IF ours.kind = "file" THEN ours ELSE theirs]

\* the commits from before the run that the remote does not hold
OldOnly == pre.git.commits - base

\* replaying those commits on the remote's: one of them brought the ignore
\* file when the last shared commit did not have it
ReplayOld ==
    IF OldOnly > 0 /\ pre.git.head # base_ignore
    THEN Merge3(base_ignore, remote_ignore, pre.git.head)
    ELSE [ok |-> TRUE, res |-> remote_ignore]

\* then replaying the commit of this run
ReplayNew ==
    IF ~ReplayOld.ok \/ git.head = pre.git.head THEN ReplayOld
    ELSE Merge3(pre.git.head, ReplayOld.res, git.head)

\* the rebase stops on the ignore file
RebaseConflict == remote_commits > 0 /\ ~UpToDate /\ ~ReplayNew.ok

\* The rebase drops a replayed commit that changes nothing in the rebased
\* history. The content of the other files is not part of the state, so a
\* commit that holds other files may or may not be dropped; a commit that
\* changes the ignore file of the rebased history is kept, and a commit
\* without anything else is dropped.
OldKept ==
    (IF OldOnly > 0 /\ ReplayOld.res # remote_ignore THEN 1 ELSE 0)..OldOnly
Dropped ==
    IF ReplayNew.res # ReplayOld.res THEN {FALSE}
    ELSE IF git.held THEN BOOLEAN ELSE {TRUE}
NewKept == {IF d THEN 0 ELSE 1 : d \in Dropped}

\* The states a stopped rebase can leave: the number of commits under HEAD,
\* the ignore file in the working tree, the one in HEAD, and whether other
\* files show in git status. It stops at the first commit that conflicts,
\* on the ignore file or on another file the remote holds differently.
StopsAtOld ==
    IF OldOnly = 0 THEN {}
    ELSE IF ~ReplayOld.ok
    THEN {[commits |-> remote_commits + n, gi |-> ReplayOld.res,
           head |-> remote_ignore, other |-> o] :
              n \in 0..(OldOnly - 1), o \in BOOLEAN}
    ELSE {[commits |-> remote_commits + n, gi |-> w[1], head |-> w[2],
           other |-> TRUE] :
              n \in 0..(OldOnly - 1),
              w \in {<<remote_ignore, remote_ignore>>,
                     <<ReplayOld.res, remote_ignore>>,
                     <<ReplayOld.res, ReplayOld.res>>}}
StopsAtNew ==
    IF ~ReplayOld.ok \/ (ReplayNew.ok /\ ~git.held) THEN {}
    ELSE {[commits |-> remote_commits + n, gi |-> ReplayNew.res,
           head |-> ReplayOld.res, other |-> o] :
              n \in OldKept,
              o \in IF ReplayNew.ok THEN {TRUE} ELSE BOOLEAN}
Stops == IF remote_commits = 0 \/ UpToDate THEN {} ELSE StopsAtOld \cup StopsAtNew

\* git pull --rebase origin main, called directly: only CalledProcessError is
\* caught (warning); FileNotFoundError and any other OSError leave main() as
\* an unhandled exception. A successful rebase replays the local commits on
\* the remote's (nothing happens when the local history holds them all); a
\* rebase stopped by a conflict exits non-zero with HEAD detached on the
\* commits replayed so far and an unmerged index.
GitPull ==
    /\ pc = "pull"
    /\ \E o \in Outcomes :
        /\ o = "ok" => (remote_commits > 0 /\ ~RebaseConflict)
        /\ cmds' = Append(cmds, <<"pull", o>>)
        /\ CASE o = "ok" ->
                  /\ Goto("push")
                  /\ pulled' = TRUE
                  /\ UNCHANGED warnings
                  /\ IF UpToDate THEN UNCHANGED <<git, gitignore>>
                     ELSE /\ \E n \in OldKept, m \in NewKept,
                                l \in Listed(gitignore, ReplayNew.res, FALSE) :
                               git' = [git EXCEPT
                                         !.commits = remote_commits + n + m,
                                         !.head = ReplayNew.res,
                                         !.other = l,
                                         !.dirty = l]
                          /\ gitignore' = ReplayNew.res
             [] o = "nonzero" ->
                  /\ Warn("pull_failed")
                  /\ Goto("push")
                  /\ UNCHANGED pulled
                  /\ \/ UNCHANGED <<git, gitignore>>
                     \/ \E s \in Stops :
                           /\ git' = [git EXCEPT
                                        !.branch = "DETACHED",
                                        !.commits = s.commits,
                                        !.dirty = TRUE,
                                        !.other = s.other,
                                        !.head = s.head]
                           /\ gitignore' = s.gi
             [] o \in {"notfound", "oserror"} ->
                  Crash("pull") /\ UNCHANGED <<git, pulled, gitignore, warnings>>
    /\ UNCHANGED <<env, dir_input, repo_dir, cwd, remote_commits, pushed, repo_url,
                   repo_name, asked>>

\* git push --set-upstream origin main is rejected when the remote holds
\* history the local branch does not contain
GitPush ==
    /\ pc = "push"
    /\ \E o \in Outcomes :
        /\ o = "ok" => ContainsRemote
        /\ RunCommand("push", o, "report")
        /\ pushed' = (o = "ok")
        /\ remote_commits' = IF o = "ok" THEN git.commits ELSE remote_commits
    /\ UNCHANGED <<warnings, env, dir_input, repo_dir, cwd, gitignore, git, pulled,
                   repo_url, repo_name, asked>>

\* repo_name and the success message; main() returns, exit status 0
ReportSuccess ==
    /\ pc = "report"
    /\ repo_name' = RepoName(repo_url)
    /\ pc' = "done"
    /\ exit' = 0
    /\ UNCHANGED <<uncaught, error, warnings, env, dir_input, repo_dir, cwd, gitignore,
                   gitv, repo_url, cmds, asked>>

Next ==
    \/ ParseArgs
    \/ AskDir
    \/ Chdir
    \/ GitInit
    \/ CreateGitignore
    \/ PopulateGitignore
    \/ GitAdd
    \/ GitCommit
    \/ GitBranch
    \/ AskUrl
    \/ GitRemoteAdd
    \/ GitPull
    \/ GitPush
    \/ ReportSuccess

Spec == Init /\ [][Next]_vars

(* ---------------- the display name alone ---------------- *)
\* The state right after a successful push of a fresh directory run with
\* --current, for every accepted URL up to MaxNameTail characters after the
\* scheme prefix.
NameInit ==
    /\ mode = "current"
    /\ pc = "report"
    /\ exit = -1
    /\ uncaught = "none"
    /\ error = "none"
    /\ warnings = {"no_template", "pull_failed"}
    /\ dirs = {<<"/">>, StartCwd}
    /\ dir_input = <<>>
    /\ repo_dir = StartCwd
    /\ cwd = StartCwd
    /\ template = Absent
    /\ gitignore = File(<<>>)
    /\ repo_url \in NameUrls
    /\ git = [repo |-> TRUE, commits |-> 1, branch |-> BranchName,
              remotes |-> {<<"origin", repo_url>>}, dirty |-> FALSE,
              other |-> FALSE, head |-> File(<<>>), held |-> TRUE]
    /\ remote_commits = 1
    /\ remote_ignore = Absent
    /\ base = 0
    /\ base_ignore = Absent
    /\ pulled = FALSE
    /\ pushed = TRUE
    /\ repo_name = <<>>
    /\ cmds = <<<<"init", "ok">>, <<"add", "ok">>, <<"commit", "ok">>,
                <<"branch", "ok">>, <<"remote", "ok">>, <<"pull", "nonzero">>,
                <<"push", "ok">>>>
    /\ pre = [gitignore |-> Absent, git |-> NoRepo(TRUE)]
    /\ asked = {"url"}

NameNext == ReportSuccess

NameSpec == NameInit /\ [][NameNext]_vars

(* ---------------- history helpers ---------------- *)
Order == <<"init", "add", "commit", "branch", "remote", "pull", "push">>
Invoked(name) == \E i \in 1..Len(cmds) : cmds[i][1] = name
Succeeded(name) == \E i \in 1..Len(cmds) : cmds[i] = <<name, "ok">>
Failed(name) == \E i \in 1..Len(cmds) : cmds[i][1] = name /\ cmds[i][2] # "ok"
NonZeroExit == exit \notin {0, -1}
AllSixSucceeded ==
    \A name \in {"init", "add", "commit", "branch", "remote", "push"} : Succeeded(name)
RunSucceeded == pc = "done" /\ AllSixSucceeded

(* ---------------- C1 ---------------- *)
BadDir == dir_input = <<>> \/ Abspath(dir_input) \notin dirs

\* C1: when the path typed at the directory prompt is empty or names no
\* existing directory, the run has ended with a non-zero exit status, the
\* working directory is the one the process started in, no file and no
\* repository state has changed, and no git command has been invoked.
C1_MissingDirAborts ==
    ("dir" \in asked /\ BadDir) =>
        /\ pc = "done"
        /\ NonZeroExit
        /\ cwd = StartCwd
        /\ gitignore = pre.gitignore
        /\ git = pre.git
        /\ cmds = <<>>

C1_Witness ==
    /\ "dir" \in asked
    /\ dir_input # <<>>
    /\ Abspath(dir_input) \notin dirs
    /\ error = "no_dir"

(* ---------------- C2 ---------------- *)
\* C2: when the remote location read at the prompt starts with neither
\* "https://" nor "git@", the run has ended with a non-zero exit status at
\* the validation, and none of git remote add, git pull, git push has been
\* invoked. (A prompt that could read nothing leaves no location; the run
\* then ends on the exception, with a non-zero exit status and without those
\* commands as well.)
C2_BadUrlAborts ==
    ("url" \in asked /\ ~StartsWith(repo_url, Https) /\ ~StartsWith(repo_url, GitAt)) =>
        /\ pc = "done"
        /\ NonZeroExit
        /\ uncaught = "none" => error = "bad_url"
        /\ ~Invoked("remote") /\ ~Invoked("pull") /\ ~Invoked("push")

C2_Witness ==
    /\ "url" \in asked
    /\ repo_url # <<>>
    /\ ~StartsWith(repo_url, Https)
    /\ error = "bad_url"
    /\ Succeeded("branch")

(* ---------------- C3 ---------------- *)
\* C3: a failure of git pull never aborts the run: no exception is left
\* unhandled, the failure is reported as a warning, and the run does not
\* end without git push having been invoked.
C3_PullFailureTolerated ==
    Failed("pull") =>
        /\ uncaught = "none"
        /\ "pull_failed" \in warnings
        /\ pc = "done" => Invoked("push")

(* ---------------- C4 ---------------- *)
\* C4 as stated: after a successful run the ignore file exists and is
\* non-empty exactly when the template existed. Stated for the runs whose
\* synchronization pulled nothing, so that only main() has written the file.
C4_NonEmptyIffTemplate ==
    (RunSucceeded /\ ~pulled) =>
        /\ gitignore.kind = "file"
        /\ Len(gitignore.data) > 0 <=> template.kind # "absent"

\* C4 amended: after a successful run whose synchronization pulled nothing
\* the ignore file exists (a successful pull leaves what the rebase produced,
\* which may be no file at all); if moreover the template was copied without
\* error, the ignore file's content is the template's content (so it is
\* non-empty exactly when the template is); if the template is absent the
\* only consequence is a warning, and the ignore file holds what it held
\* beforehand (nothing if it did not exist) unless the synchronization
\* pulled.
C4_IgnoreFileAfterSuccess ==
    RunSucceeded =>
        /\ ~pulled => gitignore.kind = "file"
        /\ (template.kind = "file" /\ "copy_failed" \notin warnings /\ ~pulled) =>
               gitignore.data = template.data
        /\ template.kind = "absent" =>
               /\ "no_template" \in warnings
               /\ "copy_failed" \notin warnings
               /\ ~pulled => gitignore.data = pre.gitignore.data

C4_Witness ==
    /\ RunSucceeded
    /\ template.kind = "file"
    /\ Len(template.data) > 0
    /\ pre.gitignore.kind = "file"
    /\ Len(pre.gitignore.data) > 0
    /\ ~pulled
    /\ gitignore.data = template.data

(* ---------------- C5 ---------------- *)
\* C5 as stated: after a successful run there is exactly one commit, the
\* branch is main, and origin -> the supplied location is the only remote.
C5_OneCommitOneRemote ==
    RunSucceeded =>
        /\ git.commits = 1
        /\ git.branch = "main"
        /\ git.remotes = {<<"origin", repo_url>>}

\* C5 amended: after a successful run the active branch is main, exactly one
\* remote is registered under origin and it points at the supplied location
\* (it is the only remote when none was registered beforehand), and the
\* repository holds at least one commit, exactly one when it held none
\* beforehand and the synchronization pulled nothing.
C5_RepositoryAfterSuccess ==
    RunSucceeded =>
        /\ git.branch = "main"
        /\ {r \in git.remotes : r[1] = "origin"} = {<<"origin", repo_url>>}
        /\ pre.git.remotes = {} => git.remotes = {<<"origin", repo_url>>}
        /\ git.commits >= 1
        /\ (pre.git.commits = 0 /\ ~pulled) => git.commits = 1

C5_Witness ==
    /\ RunSucceeded
    /\ pre.git.repo
    /\ pre.git.commits = 0
    /\ ~pulled
    /\ git.commits = 1
    /\ git.remotes = {<<"origin", repo_url>>}

(* ---------------- C6 ---------------- *)
StripOneSlash(s) ==
    IF s # <<>> /\ s[Len(s)] = "/" THEN SubSeq(s, 1, Len(s) - 1) ELSE s
StripDotGitSuffix(s) ==
    IF Len(s) >= Len(DotGit) /\ SubSeq(s, Len(s) - Len(DotGit) + 1, Len(s)) = DotGit
    THEN SubSeq(s, 1, Len(s) - Len(DotGit))
    ELSE s
StatedName(url) == Basename(StripDotGitSuffix(StripOneSlash(url)))

EndsInTwoSlashes(s) == Len(s) >= 2 /\ s[Len(s)] = "/" /\ s[Len(s) - 1] = "/"

\* C6: the name printed on success is the last path component of the
\* location after removing one trailing "/" and one trailing ".git", and
\* nothing else. Stated for the locations that end in at most one "/", where
\* removing one separator and removing all of them are the same.
C6_DisplayName ==
    (pc = "done" /\ exit = 0 /\ pushed /\ ~EndsInTwoSlashes(repo_url)) =>
        repo_name = StatedName(repo_url)

(* ---------------- C7 ---------------- *)
\* C7 as stated: the exit status is 0 exactly when init, add, commit, branch
\* rename, remote add and push all succeeded; every abort is non-zero.
C7_ZeroIffSuccess ==
    pc = "done" =>
        /\ exit = 0 <=> AllSixSucceeded
        /\ (error # "none" \/ uncaught # "none") => NonZeroExit

\* C7 amended: unless the program was asked for its help text (which prints
\* the usage and exits 0 before any step), the exit status is 0 exactly when
\* init, add, commit, branch rename, remote add and push all succeeded;
\* every abort at a check or at a failing command is non-zero.
C7_ZeroIffSuccessOrHelp ==
    pc = "done" =>
        /\ mode # "help" => (exit = 0 <=> AllSixSucceeded)
        /\ mode = "help" => (exit = 0 /\ cmds = <<>>)
        /\ (error # "none" \/ uncaught # "none") => NonZeroExit

C7_Witness ==
    /\ pc = "done"
    /\ error = "commit"
    /\ exit = 1
    /\ ~AllSixSucceeded

(* ---------------- C8 ---------------- *)
\* C8: no failure of a git invocation of either kind (non-zero exit, git not
\* found), at any of the seven invocation points, leaves main() as an
\* unhandled exception.
C8_NoUnhandledCommandFailure ==
    \A i \in 1..Len(cmds) :
        cmds[i][2] \in {"nonzero", "notfound"} => uncaught = "none"

(* ---------------- C9 ---------------- *)
\* C9: the commands invoked so far are a prefix of init, add, commit,
\* branch, remote, pull, push (fixed order, each at most once); every command
\* before the last one invoked succeeded unless it is pull; and once a
\* command other than pull has failed the run is over.
C9_FixedOrderNoRetry ==
    /\ Len(cmds) <= Len(Order)
    /\ \A i \in 1..Len(cmds) : cmds[i][1] = Order[i]
    /\ \A i \in 1..(Len(cmds) - 1) : cmds[i][1] # "pull" => cmds[i][2] = "ok"
    /\ \A i \in 1..Len(cmds) :
          (cmds[i][1] # "pull" /\ cmds[i][2] # "ok") => (i = Len(cmds) /\ pc = "done")

C9_Witness ==
    /\ pc = "done"
    /\ Len(cmds) = 3
    /\ cmds[3] = <<"commit", "nonzero">>

(* ---------------- C10 ---------------- *)
\* C10: the populate step never ends the run: whatever it meets, the next
\* step is git add, the ignore file still exists, no error and no unhandled
\* exception is raised, and unless the template was copied a warning has
\* been added.
C10_PopulateNeverAborts ==
    [][pc = "populate" =>
          /\ pc' = "add"
          /\ exit' = -1
          /\ error' = "none"
          /\ uncaught' = "none"
          /\ gitignore'.kind = "file"
          /\ \/ warnings' # warnings
             \/ template.kind = "file" /\ gitignore' = File(template.data)]_vars

C10_Witness ==
    /\ Invoked("add")
    /\ "copy_failed" \in warnings
    /\ template.kind = "file"
    /\ gitignore = pre.gitignore

====
